---- MODULE Spec2Model ----
(***************************************************************************)
(* Model of ppq/api/interface.py: the quantization entry points            *)
(* quantize_onnx_model / quantize_caffe_model, the normalization pipeline  *)
(* format_graph and the partitioning function dispatch_graph.              *)
(*                                                                         *)
(* One run of one public entry point is modelled.  `pc` is the position of *)
(* the (single-threaded) caller inside the entry point: the index of the   *)
(* next statement of its body.  A raise ends the run: `err` then holds the *)
(* exception class and no statement is enabled any more.                   *)
(***************************************************************************)
EXTENDS Integers, Sequences, FiniteSets, TLC

VARIABLES
    entry,             \* which public function was called
    platform,          \* argument `platform`
    do_quantize,       \* argument `do_quantize`
    calib_dataloader,  \* argument `calib_dataloader`: <<>> is None
    calib_steps,       \* argument `calib_steps`: <<>> is None, <<n>> is the int n
    dispatcher,        \* setting.dispatcher
    dispatchings,      \* setting.dispatching_table.dispatchings, in dict order
    pc,                \* position of the caller
    err,               \* exception class raised, "none" while running
    graph,             \* the BaseGraph being processed
    dispatching_table, \* local of dispatch_graph: operation name -> platform
    passes,            \* GraphCommands issued to the GraphFormatter so far
    quantize_calls,    \* calib_steps of every quantizer.quantize(...) call made
    automatic,         \* history: the table dispatcher.dispatch returned
    stages,            \* history: pipeline stages that have run, in order
    platformAtCall,    \* history: operation platforms when dispatch_graph was entered
    quant_types,       \* quantizer.quant_operation_types of the platform's quantizer
    graph_arg,         \* history: the graph as the entry point received it
    setting,           \* the UnbelievableUserFriendlyQuantizationSetting at hand
    daddy,             \* what convert_to_daddy_setting returned
    document,          \* the settings file: <<>> if absent, else <<json object>>
    loaded,            \* what from_file returned
    warnings,          \* ppq_warning calls, in order
    files,             \* the file system: path -> "absent", "file", "dir"
    exports,           \* exporter.export calls, in order
    config_save_to     \* export_ppq_graph's config_save_to: <<>> is None

vars == <<entry, platform, do_quantize, calib_dataloader, calib_steps, dispatcher,
          dispatchings, pc, err, graph, dispatching_table, passes, quantize_calls,
          automatic, stages, platformAtCall, quant_types, graph_arg, setting,
          daddy, document, loaded, warnings, files, exports, config_save_to>>

(***************************************************************************)
(* Bounds of the model.                                                    *)
(***************************************************************************)
\* longest override table (setting.dispatching_table.dispatchings) explored
MaxOverrides == 2

(***************************************************************************)
(* Platforms and registries.                                               *)
(***************************************************************************)
\* keys of QUANTIZER_COLLECTION
QUANTIZER_COLLECTION ==
    {"PPL_DSP_INT8", "PPL_DSP_TI_IN8", "SNPE_INT8", "TRT_INT8", "NXP_INT8",
     "ORT_OOS_INT8", "METAX_INT8_C", "METAX_INT8_T", "PPL_CUDA_INT8", "EXTENSION",
     "PPL_CUDA_MIX", "PPL_CUDA_INT4", "ACADEMIC_INT8", "ACADEMIC_INT4", "ACADEMIC_MIX"}

\* TargetPlatform.is_quantized_platform: the quantized-accelerator kinds.  Every
\* platform that has a quantizer is a quantized platform; FP32, SHAPE_OR_INDEX,
\* UNSPECIFIED and the export-only formats (ONNX, CAFFE, NATIVE, ...) are not.
is_quantized_platform(p) == p \in QUANTIZER_COLLECTION

\* keys of DISPATCHER_TABLE (ppq.scheduler), matched against the lower-cased name
DISPATCHER_TABLE == {"conservative", "pplnn", "aggresive"}

\* str(setting.dispatcher).lower() for the dispatcher names explored
Lower(s) == IF s = "Conservative" THEN "conservative" ELSE s

\* the platforms an entry point is called with
RequestedPlatforms == {"PPL_CUDA_INT8", "FP32", "ONNX"}

\* the dispatcher names a setting is given
DispatcherNames == {"Conservative", "no_such_dispatcher"}

\* TargetPlatform(code): the member with that value, "invalid" where the enum
\* constructor raises ValueError
TargetPlatform(code) ==
    CASE code = 7 -> "FP32"
      [] code = 8 -> "SHAPE_OR_INDEX"
      [] OTHER    -> "invalid"

\* values a user writes into the dispatching table: ints (valid or not) and a
\* value that is no int
OverrideValues ==
    {[type |-> "int", value |-> 7], [type |-> "int", value |-> 8],
     [type |-> "int", value |-> 999], [type |-> "str", value |-> 0]}

(***************************************************************************)
(* Graphs.  An operation is its name; its kind is fixed by the name.  An    *)
(* edge <<p, c>> is a variable produced by p and consumed by c.            *)
(***************************************************************************)
Kind(op) ==
    CASE op = "conv_1" -> "Conv"
      [] op = "bn_1"   -> "BatchNormalization"
      [] op = "relu_1" -> "Relu"
      [] op = "const_1" -> "Constant"
      [] op = "reshape_1" -> "Reshape"
      [] op = "gather_1" -> "Gather"
      [] op = "shape_1" -> "Shape"
      [] op = "add_1"  -> "Add"
      [] OTHER         -> "Unknown"

\* graph.operations.values(): dict order of the operations
OperationOrder ==
    <<"const_1", "conv_1", "bn_1", "relu_1", "reshape_1", "gather_1", "shape_1",
      "add_1", "custom_1", "dead_1">>

\* operation names a dispatching table may mention; conv_99 is in no graph
OverrideNames == {"conv_1", "bn_1", "conv_99"}

MkGraph(ops, es, outs) ==
    [operations |-> ops,
     edges      |-> es,
     outputs    |-> outs,
     platform   |-> [o \in ops |-> "UNSPECIFIED"],
     switchers  |-> [e \in es |-> 0]]

NoGraph == MkGraph({}, {}, {})

\* what a parser's build() returns
ParsedGraphs ==
    { \* conv -> bn -> relu: the batch-norm is fusable
      MkGraph({"conv_1", "bn_1", "relu_1"},
              {<<"conv_1", "bn_1">>, <<"bn_1", "relu_1">>}, {"relu_1"}),
      \* the conv output fans out to bn and relu: fusion is blocked
      MkGraph({"conv_1", "bn_1", "relu_1"},
              {<<"conv_1", "bn_1">>, <<"conv_1", "relu_1">>, <<"bn_1", "relu_1">>},
              {"relu_1"}),
      \* a constant feeding the conv, and a batch-norm connected to nothing
      MkGraph({"const_1", "conv_1", "bn_1", "relu_1"},
              {<<"const_1", "conv_1">>, <<"conv_1", "relu_1">>}, {"relu_1"}) }

(***************************************************************************)
(* The normalization passes (GraphFormatter / GraphMerger commands).       *)
(***************************************************************************)
Producers(g, op) == {e[1] : e \in {x \in g.edges : x[2] = op}}
Consumers(g, op) == {e[2] : e \in {x \in g.edges : x[1] = op}}

\* the graph on the given operations and edges, every surviving field kept
Rebuild(g, ops, es, outs) ==
    [operations |-> ops,
     edges      |-> es,
     outputs    |-> outs,
     platform   |-> [o \in ops |-> g.platform[o]],
     switchers  |-> [e \in es |-> IF e \in g.edges THEN g.switchers[e] ELSE 0]]

\* FORMAT_CONSTANT_INPUT: a Constant operation becomes a parameter variable of
\* its consumers; the operation and the edges leaving it disappear
FormatConstantInput(g) ==
    LET dead == {o \in g.operations : Kind(o) = "Constant"}
    IN  Rebuild(g, g.operations \ dead,
                {e \in g.edges : e[1] \notin dead /\ e[2] \notin dead},
                g.outputs \ dead)

\* the batch-norms that directly follow a Conv that has no other consumer
FusableBN(g) ==
    {b \in g.operations :
        /\ Kind(b) = "BatchNormalization"
        /\ \E c \in g.operations :
              /\ Kind(c) = "Conv"
              /\ Producers(g, b) = {c}
              /\ Consumers(g, c) = {b}}

\* FUSE_BN: fold each fusable batch-norm into its Conv; the Conv takes over the
\* batch-norm's consumers
FuseBN(g) ==
    LET dead == FusableBN(g)
        conv(b) == CHOOSE c \in Producers(g, b) : TRUE
        kept == {e \in g.edges : e[1] \notin dead /\ e[2] \notin dead}
        moved == {<<conv(e[1]), e[2]>> : e \in {x \in g.edges : x[1] \in dead}}
    IN  Rebuild(g, g.operations \ dead, kept \cup moved,
                (g.outputs \ dead) \cup {conv(b) : b \in dead \cap g.outputs})

RECURSIVE Ancestors(_, _)
\* the operations with a path to one of the operations in S
Ancestors(es, S) ==
    LET S2 == S \cup {e[1] : e \in {x \in es : x[2] \in S}}
    IN  IF S2 = S THEN S ELSE Ancestors(es, S2)

\* DELETE_ISOLATED: remove every operation with no path to a graph output
DeleteIsolated(g) ==
    LET live == Ancestors(g.edges, g.outputs)
    IN  Rebuild(g, g.operations \cap live,
                {e \in g.edges : e[1] \in live /\ e[2] \in live}, g.outputs)

\* mutant: parameters are split before batch-norms are fused
FormatPassesFuseLate ==
    <<"FORMAT_CONSTANT_INPUT", "FORMAT_PARAMETERS", "FUSE_BN", "FORMAT_CAST",
      "FORMAT_SLICE", "FORMAT_CLIP", "DELETE_ISOLATED">>

\* the commands format_graph issues, in order
FormatPasses ==
    <<"FORMAT_CONSTANT_INPUT", "FUSE_BN", "FORMAT_PARAMETERS", "FORMAT_CAST",
      "FORMAT_SLICE", "FORMAT_CLIP", "DELETE_ISOLATED">>

\* the effect of one command on the operation-level graph: parameter splitting
\* and cast/slice/clip canonicalization rewrite attributes and variables only
ApplyPass(cmd, g) ==
    CASE cmd = "FORMAT_CONSTANT_INPUT" -> FormatConstantInput(g)
      [] cmd = "FUSE_BN"               -> FuseBN(g)
      [] cmd = "DELETE_ISOLATED"       -> DeleteIsolated(g)
      [] OTHER                         -> g

RECURSIVE RunPasses(_, _)
RunPasses(cmds, g) ==
    IF cmds = <<>> THEN g ELSE RunPasses(Tail(cmds), ApplyPass(Head(cmds), g))

\* format_graph as a function of the graph
format_graph(g) == RunPasses(FormatPasses, g)

(***************************************************************************)
(* The bodies of the entry points, as the sequence of their statements.    *)
(***************************************************************************)
\* mutant: dispatch_graph returns right after the commit loop
dispatch_graph_without_switcher ==
    <<"assert_platform", "select_dispatcher", "dispatch", "override", "commit">>

\* mutant: the switcher runs before the commit loop
dispatch_graph_switcher_first ==
    <<"assert_platform", "select_dispatcher", "dispatch", "override",
      "insert_switcher", "commit">>

\* dispatch_graph
dispatch_graph ==
    <<"assert_platform",     \* assert platform in QUANTIZER_COLLECTION; build quantizer
      "select_dispatcher",   \* look setting.dispatcher up in DISPATCHER_TABLE
      "dispatch",            \* dispatcher.dispatch(...)
      "override",            \* override dispatching result with setting
      "commit",              \* operation.platform = dispatching_table[operation.name]
      "insert_switcher">>    \* GraphDeviceSwitcher(INSERT_SWITCHER)

\* quantize_onnx_model: load_onnx_graph is load_graph followed by format_graph
quantize_onnx_model ==
    <<"check_platform", "check_calibration", "load_graph", "format_graph">>
    \o dispatch_graph \o <<"quantizer">>

\* mutant: the graph is dispatched before it is normalized
quantize_caffe_model_format_late ==
    <<"check_platform", "check_calibration", "load_graph">>
    \o dispatch_graph \o <<"format_graph", "quantizer">>

\* quantize_caffe_model
quantize_caffe_model ==
    <<"check_platform", "check_calibration", "load_graph", "format_graph">>
    \o dispatch_graph \o <<"quantizer">>

\* a caller that translates its user-facing setting and dispatches with the
\* result: daddy = setting.convert_to_daddy_setting();
\* dispatch_graph(graph, setting.platform, daddy)
convert_and_dispatch == <<"convert_to_daddy_setting">> \o dispatch_graph

\* export_ppq_graph
export_ppq_graph ==
    <<"check_paths",      \* postfix; the loop over [graph_save_to, config_save_to]
      "check_exporter",   \* if platform not in EXPORTERS: raise KeyError
      "export">>          \* exporter.export(file_path, config_path, graph)

\* a caller that exports the graph it has just loaded:
\* export_ppq_graph(load_onnx_graph(file), platform, ...)
load_and_export == <<"load_graph", "format_graph">> \o export_ppq_graph

\* a caller that exports the graph dispatch_graph returned
dispatch_and_export == dispatch_graph \o export_ppq_graph

\* UnbelievableUserFriendlyQuantizationSetting.from_file(file_path)
from_file == <<"from_file">>

\* a caller that writes a setting and reads it back from the same path:
\* setting.to_json(path); from_file(path)
to_json_from_file == <<"to_json", "from_file">>

\* a caller that normalizes a graph that is already normalized:
\* format_graph(format_graph(graph))
format_graph_twice == <<"format_graph", "format_graph">>

EntryPoints == {"quantize_onnx_model", "quantize_caffe_model", "dispatch_graph"}

Body(e) ==
    CASE e = "quantize_onnx_model"  -> quantize_onnx_model
      [] e = "quantize_caffe_model" -> quantize_caffe_model
      [] e = "convert_and_dispatch" -> convert_and_dispatch
      [] e = "format_graph_twice"   -> format_graph_twice
      [] e = "export_ppq_graph"     -> export_ppq_graph
      [] e = "from_file"            -> from_file
      [] e = "to_json_from_file"    -> to_json_from_file
      [] e = "load_and_export"      -> load_and_export
      [] e = "dispatch_and_export"  -> dispatch_and_export
      [] OTHER                      -> dispatch_graph

\* the statement the caller executes next
Stmt ==
    IF err # "none" THEN "raised"
    ELSE IF pc > Len(Body(entry)) THEN "returned"
    ELSE Body(entry)[pc]

(***************************************************************************)
(* Checks and loops of the entry points, as functions of what they read.   *)
(***************************************************************************)
\* quantize_*_model: the platform checks; "none" when both pass
CheckPlatform(p) ==
    IF ~is_quantized_platform(p) THEN "ValueError"
    ELSE IF p \notin QUANTIZER_COLLECTION THEN "KeyError"
    ELSE "none"

\* quantize_*_model: the calibration check
CheckCalibration(doq, loader, steps) ==
    IF doq /\ (loader = <<>> \/ steps = <<>>) THEN "TypeError" ELSE "none"

\* mutant: dispatch_graph takes any platform
AssertPlatformAny(p) == "none"

\* dispatch_graph: assert platform in QUANTIZER_COLLECTION
AssertPlatform(p) ==
    IF p \notin QUANTIZER_COLLECTION THEN "AssertionError" ELSE "none"

\* mutant: an unknown dispatcher name is accepted
SelectDispatcherAny(name) == "none"

\* dispatch_graph: the dispatcher lookup
SelectDispatcher(name) ==
    IF Lower(name) \notin DISPATCHER_TABLE THEN "ValueError" ELSE "none"

\* the tables dispatcher.dispatch may return for a graph with operations ops:
\* each classified operation gets the tentative quant platform (UNSPECIFIED),
\* FP32 or SHAPE_OR_INDEX; dispatch_graph itself allows for unclassified ones
AutoPlatforms == {"UNSPECIFIED", "FP32", "SHAPE_OR_INDEX"}
DispatchResults(ops) ==
    UNION {[classified -> AutoPlatforms] : classified \in SUBSET ops}

RECURSIVE ApplyOverridesAutoWins(_, _, _)
\* mutant: an override only fills an entry the automatic table lacks
ApplyOverridesAutoWins(table, overrides, ops) ==
    IF overrides = <<>> THEN [table |-> table, err |-> "none"]
    ELSE LET opname == Head(overrides).name
             value  == Head(overrides).value
         IN  IF opname \notin ops
                 THEN ApplyOverridesAutoWins(table, Tail(overrides), ops)
             ELSE IF value.type # "int"
                 THEN [table |-> table, err |-> "AssertionError"]
             ELSE IF TargetPlatform(value.value) = "invalid"
                 THEN [table |-> table, err |-> "ValueError"]
             ELSE ApplyOverridesAutoWins(
                      table @@ (opname :> TargetPlatform(value.value)),
                      Tail(overrides), ops)

RECURSIVE ApplyOverridesSkipInvalid(_, _, _)
\* mutant: an unrecognized platform code is skipped like a stale name
ApplyOverridesSkipInvalid(table, overrides, ops) ==
    IF overrides = <<>> THEN [table |-> table, err |-> "none"]
    ELSE LET opname == Head(overrides).name
             value  == Head(overrides).value
         IN  IF opname \notin ops
                 THEN ApplyOverridesSkipInvalid(table, Tail(overrides), ops)
             ELSE IF value.type # "int"
                 THEN [table |-> table, err |-> "AssertionError"]
             ELSE IF TargetPlatform(value.value) = "invalid"
                 THEN ApplyOverridesSkipInvalid(table, Tail(overrides), ops)
             ELSE ApplyOverridesSkipInvalid(
                      (opname :> TargetPlatform(value.value)) @@ table,
                      Tail(overrides), ops)

RECURSIVE ApplyOverridesValidateFirst(_, _, _)
\* mutant: the value is validated before the operation name is looked up
ApplyOverridesValidateFirst(table, overrides, ops) ==
    IF overrides = <<>> THEN [table |-> table, err |-> "none"]
    ELSE LET opname == Head(overrides).name
             value  == Head(overrides).value
         IN  IF value.type # "int"
                 THEN [table |-> table, err |-> "AssertionError"]
             ELSE IF TargetPlatform(value.value) = "invalid"
                 THEN [table |-> table, err |-> "ValueError"]
             ELSE IF opname \notin ops
                 THEN ApplyOverridesValidateFirst(table, Tail(overrides), ops)
             ELSE ApplyOverridesValidateFirst(
                      (opname :> TargetPlatform(value.value)) @@ table,
                      Tail(overrides), ops)

RECURSIVE ApplyOverrides(_, _, _)
\* the override loop over dispatchings.items(): the table it leaves and the
\* exception it raises
ApplyOverrides(table, overrides, ops) ==
    IF overrides = <<>> THEN [table |-> table, err |-> "none"]
    ELSE LET opname == Head(overrides).name
             value  == Head(overrides).value
         IN  IF opname \notin ops
                 THEN ApplyOverrides(table, Tail(overrides), ops)
             ELSE IF value.type # "int"
                 THEN [table |-> table, err |-> "AssertionError"]
             ELSE IF TargetPlatform(value.value) = "invalid"
                 THEN [table |-> table, err |-> "ValueError"]
             ELSE ApplyOverrides((opname :> TargetPlatform(value.value)) @@ table,
                                 Tail(overrides), ops)

\* graph.operations.values()
OperationsOf(g) == SelectSeq(OperationOrder, LAMBDA o : o \in g.operations)

RECURSIVE CommitPlatformsSkipMissing(_, _, _)
\* mutant: an operation the table lacks is skipped instead of failing the assert
CommitPlatformsSkipMissing(order, table, plat) ==
    IF order = <<>> THEN [platform |-> plat, err |-> "none"]
    ELSE LET name == Head(order)
         IN  IF name \notin DOMAIN table
                 THEN CommitPlatformsSkipMissing(Tail(order), table, plat)
             ELSE CommitPlatformsSkipMissing(Tail(order), table,
                                             [plat EXCEPT ![name] = table[name]])

RECURSIVE CommitPlatforms(_, _, _)
\* the commit loop: the platform fields it leaves and the exception it raises
CommitPlatforms(order, table, plat) ==
    IF order = <<>> THEN [platform |-> plat, err |-> "none"]
    ELSE LET name == Head(order)
         IN  IF name \notin DOMAIN table
                 THEN [platform |-> plat, err |-> "AssertionError"]
             ELSE CommitPlatforms(Tail(order), table,
                                  [plat EXCEPT ![name] = table[name]])

\* INSERT_SWITCHER: one DeviceSwitch node on every edge whose producer and
\* consumer have different platforms; nothing else is touched
InsertSwitcher(g) ==
    [g EXCEPT !.switchers =
        [e \in g.edges |->
            IF g.platform[e[1]] # g.platform[e[2]] THEN g.switchers[e] + 1
            ELSE g.switchers[e]]]

(***************************************************************************)
(* Inputs.                                                                 *)
(***************************************************************************)
OverrideEntries == [name : OverrideNames, value : OverrideValues]

\* dispatching tables: dicts, so no operation name occurs twice
OverrideTables ==
    UNION {{t \in [1..n -> OverrideEntries] :
                \A i, j \in 1..n : t[i].name = t[j].name => i = j}
           : n \in 0..MaxOverrides}

\* (do_quantize, calib_dataloader, calib_steps) of a quantize_*_model call
CalibrationArgs ==
    {<<TRUE, <<>>, <<>>>>, <<TRUE, <<>>, <<1>>>>, <<TRUE, <<"loader">>, <<>>>>,
     <<TRUE, <<"loader">>, <<-1>>>>, <<TRUE, <<"loader">>, <<0>>>>,
     <<TRUE, <<"loader">>, <<1>>>>,
     <<FALSE, <<>>, <<>>>>, <<FALSE, <<"loader">>, <<1>>>>}

\* the graphs load_onnx_graph / load_caffe_graph hand to a caller
LoadedGraphs == {format_graph(g) : g \in ParsedGraphs}

\* the state of everything a pipeline run does not use
NoSettings ==
    /\ setting = <<>>
    /\ daddy = <<>>
    /\ document = <<>>
    /\ loaded = <<>>
    /\ warnings = <<>>

NoExports ==
    /\ files = <<>>
    /\ exports = <<>>
    /\ config_save_to = <<>>

Init ==
    /\ entry \in EntryPoints
    /\ platform \in RequestedPlatforms
    /\ dispatcher \in DispatcherNames
    /\ dispatchings \in OverrideTables
    /\ IF entry = "dispatch_graph"
          THEN /\ do_quantize = FALSE
               /\ calib_dataloader = <<>>
               /\ calib_steps = <<>>
               /\ graph \in LoadedGraphs
          ELSE /\ \E a \in CalibrationArgs :
                     /\ do_quantize = a[1]
                     /\ calib_dataloader = a[2]
                     /\ calib_steps = a[3]
               /\ graph = NoGraph
    /\ pc = 1
    /\ err = "none"
    /\ dispatching_table = <<>>
    /\ passes = <<>>
    /\ quantize_calls = <<>>
    /\ automatic = <<>>
    /\ stages = <<>>
    /\ platformAtCall = <<>>
    /\ quant_types = {}
    /\ graph_arg = graph
    /\ NoSettings
    /\ NoExports

(***************************************************************************)
(* Statements.                                                             *)
(***************************************************************************)
inputs == <<entry, platform, do_quantize, calib_dataloader, calib_steps,
            dispatcher, dispatchings, quant_types, graph_arg, setting, daddy,
            document, loaded, warnings, files, exports, config_save_to>>

\* a statement that only checks: raise e, or fall through
Check(e) ==
    /\ err' = e
    /\ pc' = IF e = "none" THEN pc + 1 ELSE pc

\* quantize_*_model: is_quantized_platform / QUANTIZER_COLLECTION checks
DoCheckPlatform ==
    /\ Stmt = "check_platform"
    /\ Check(CheckPlatform(platform))
    /\ UNCHANGED <<inputs, automatic, graph, dispatching_table, passes, quantize_calls,
                   stages, platformAtCall>>

\* quantize_*_model: if do_quantize: calib_dataloader / calib_steps is None
DoCheckCalibration ==
    /\ Stmt = "check_calibration"
    /\ Check(CheckCalibration(do_quantize, calib_dataloader, calib_steps))
    /\ UNCHANGED <<inputs, automatic, graph, dispatching_table, passes, quantize_calls,
                   stages, platformAtCall>>

\* load_graph: the parser builds the graph
DoLoadGraph ==
    /\ Stmt = "load_graph"
    /\ graph' \in ParsedGraphs
    /\ stages' = Append(stages, "load_graph")
    /\ pc' = pc + 1
    /\ UNCHANGED <<inputs, automatic, err, dispatching_table, passes, quantize_calls,
                   platformAtCall>>

\* format_graph: the next GraphCommand of the pipeline
DoFormatPass ==
    /\ Stmt = "format_graph"
    /\ LET cmd == FormatPasses[(Len(passes) % Len(FormatPasses)) + 1]
       IN  /\ graph' = ApplyPass(cmd, graph)
           /\ passes' = Append(passes, cmd)
    /\ stages' = IF Len(passes) % Len(FormatPasses) = 0
                     THEN Append(stages, "format_graph") ELSE stages
    /\ pc' = IF (Len(passes) + 1) % Len(FormatPasses) = 0 THEN pc + 1 ELSE pc
    /\ UNCHANGED <<inputs, automatic, err, dispatching_table, quantize_calls, platformAtCall>>

\* dispatch_graph: assert platform in QUANTIZER_COLLECTION, build the quantizer
DoAssertPlatform ==
    /\ Stmt = "assert_platform"
    /\ Check(AssertPlatform(platform))
    /\ platformAtCall' = graph.platform
    /\ UNCHANGED <<inputs, automatic, graph, dispatching_table, passes, quantize_calls, stages>>

\* dispatch_graph: DISPATCHER_TABLE lookup
DoSelectDispatcher ==
    /\ Stmt = "select_dispatcher"
    /\ Check(SelectDispatcher(dispatcher))
    /\ UNCHANGED <<inputs, automatic, graph, dispatching_table, passes, quantize_calls,
                   stages, platformAtCall>>

\* dispatch_graph: dispatcher.dispatch(graph, quant_types, UNSPECIFIED, FP32, SOI)
DoDispatch ==
    /\ Stmt = "dispatch"
    /\ dispatching_table' \in DispatchResults(graph.operations)
    /\ automatic' = dispatching_table'
    /\ stages' = Append(stages, "dispatch")
    /\ pc' = pc + 1
    /\ UNCHANGED <<inputs, err, graph, passes, quantize_calls, platformAtCall>>

\* dispatch_graph: the override loop
DoOverride ==
    /\ Stmt = "override"
    /\ LET r == ApplyOverrides(dispatching_table, dispatchings, graph.operations)
       IN  /\ dispatching_table' = r.table
           /\ Check(r.err)
    /\ stages' = Append(stages, "override")
    /\ UNCHANGED <<inputs, automatic, graph, passes, quantize_calls, platformAtCall>>

\* dispatch_graph: the commit loop
DoCommit ==
    /\ Stmt = "commit"
    /\ LET r == CommitPlatforms(OperationsOf(graph), dispatching_table, graph.platform)
       IN  /\ graph' = [graph EXCEPT !.platform = r.platform]
           /\ Check(r.err)
    /\ stages' = Append(stages, "commit")
    /\ UNCHANGED <<inputs, automatic, dispatching_table, passes, quantize_calls, platformAtCall>>

\* dispatch_graph: GraphDeviceSwitcher(graph)(INSERT_SWITCHER)
DoInsertSwitcher ==
    /\ Stmt = "insert_switcher"
    /\ graph' = InsertSwitcher(graph)
    /\ stages' = Append(stages, "insert_switcher")
    /\ pc' = pc + 1
    /\ UNCHANGED <<inputs, automatic, err, dispatching_table, passes, quantize_calls,
                   platformAtCall>>

\* quantize_*_model: build the quantizer and executor, quantize if do_quantize
DoQuantizer ==
    /\ Stmt = "quantizer"
    /\ quantize_calls' = IF do_quantize THEN Append(quantize_calls, calib_steps)
                         ELSE quantize_calls
    /\ stages' = Append(stages, "quantizer")
    /\ pc' = pc + 1
    /\ UNCHANGED <<inputs, automatic, err, graph, dispatching_table, passes, platformAtCall>>

Next ==
    \/ DoCheckPlatform
    \/ DoCheckCalibration
    \/ DoLoadGraph
    \/ DoFormatPass
    \/ DoAssertPlatform
    \/ DoSelectDispatcher
    \/ DoDispatch
    \/ DoOverride
    \/ DoCommit
    \/ DoInsertSwitcher
    \/ DoQuantizer

Spec == Init /\ [][Next]_vars

(***************************************************************************)
(* The automatic dispatcher's classification.                              *)
(***************************************************************************)
\* mutant: dispatch_graph passes the requested platform as the quant platform
DispatchArgsConcrete(p) ==
    [quant_platform |-> p, fp32_platform |-> "FP32",
     SOI_platform   |-> "SHAPE_OR_INDEX"]

\* the platforms dispatch_graph passes to dispatcher.dispatch
DispatchArgs(p) ==
    [quant_platform |-> "UNSPECIFIED", fp32_platform |-> "FP32",
     SOI_platform   |-> "SHAPE_OR_INDEX"]

\* the operation kinds that only manipulate shapes and indices
ShapeIndexKinds == {"Reshape", "Gather", "Shape"}

\* an operation takes part in the numeric computation unless its input derives
\* from a shape query
OnNumericPath(g, op) ==
    \A a \in Ancestors(g.edges, {op}) \ {op} : Kind(a) # "Shape"

\* dispatcher.dispatch: one entry per operation, shape/index first
Dispatch(g, types, args) ==
    [o \in g.operations |->
        IF Kind(o) \in ShapeIndexKinds THEN args.SOI_platform
        ELSE IF Kind(o) \in types /\ OnNumericPath(g, o) THEN args.quant_platform
        ELSE args.fp32_platform]

\* quantizer.quant_operation_types of the quantizers explored
QuantTypes == {{}, {"Conv", "Relu"}, {"Conv", "Relu", "Add"},
               {"Conv", "Relu", "Reshape", "Gather"}}

\* graphs with shape/index operations, as a parser builds them
ParsedShapeGraphs ==
    { \* conv -> bn -> relu -> reshape -> gather
      MkGraph({"conv_1", "bn_1", "relu_1", "reshape_1", "gather_1"},
              {<<"conv_1", "bn_1">>, <<"bn_1", "relu_1">>, <<"relu_1", "reshape_1">>,
               <<"reshape_1", "gather_1">>}, {"gather_1"}),
      \* an Add that computes on the result of a shape query
      MkGraph({"conv_1", "relu_1", "shape_1", "add_1"},
              {<<"conv_1", "relu_1">>, <<"relu_1", "shape_1">>, <<"shape_1", "add_1">>},
              {"relu_1", "add_1"}),
      \* an operation of a kind no quantizer knows, and a numeric Add
      MkGraph({"conv_1", "custom_1", "add_1", "reshape_1"},
              {<<"conv_1", "custom_1">>, <<"custom_1", "add_1">>,
               <<"add_1", "reshape_1">>}, {"reshape_1"}) }

\* dispatch_graph: quant_types and the call of dispatcher.dispatch
DoClassify ==
    /\ Stmt = "dispatch"
    /\ dispatching_table' = Dispatch(graph, quant_types, DispatchArgs(platform))
    /\ automatic' = dispatching_table'
    /\ stages' = Append(stages, "dispatch")
    /\ pc' = pc + 1
    /\ UNCHANGED <<inputs, err, graph, passes, quantize_calls, platformAtCall>>

InitClassify ==
    /\ entry = "dispatch_graph"
    /\ platform \in RequestedPlatforms
    /\ dispatcher \in DispatcherNames
    /\ dispatchings = <<>>
    /\ quant_types \in QuantTypes
    /\ do_quantize = FALSE
    /\ calib_dataloader = <<>>
    /\ calib_steps = <<>>
    /\ graph \in {format_graph(g) : g \in ParsedShapeGraphs}
    /\ graph_arg = graph
    /\ pc = 1
    /\ err = "none"
    /\ dispatching_table = <<>>
    /\ passes = <<>>
    /\ quantize_calls = <<>>
    /\ automatic = <<>>
    /\ stages = <<>>
    /\ platformAtCall = <<>>
    /\ NoSettings
    /\ NoExports

NextClassify ==
    \/ DoAssertPlatform
    \/ DoSelectDispatcher
    \/ DoClassify
    \/ DoOverride
    \/ DoCommit
    \/ DoInsertSwitcher

SpecClassify == InitClassify /\ [][NextClassify]_vars

(***************************************************************************)
(* format_graph called on its own.                                         *)
(***************************************************************************)
\* graphs in which the Conv before a batch-norm feeds a branch that reaches no
\* graph output
ParsedDeadBranchGraphs ==
    { MkGraph({"conv_1", "bn_1", "relu_1", "dead_1"},
              {<<"conv_1", "bn_1">>, <<"bn_1", "relu_1">>, <<"conv_1", "dead_1">>},
              {"relu_1"}),
      MkGraph({"const_1", "conv_1", "bn_1", "dead_1"},
              {<<"const_1", "conv_1">>, <<"conv_1", "bn_1">>, <<"conv_1", "dead_1">>},
              {"bn_1"}) }

\* the graphs format_graph is called with
FormatInputs == ParsedGraphs \cup ParsedShapeGraphs \cup ParsedDeadBranchGraphs

InitFormat ==
    /\ entry = "format_graph_twice"
    /\ graph \in FormatInputs
    /\ graph_arg = graph
    /\ platform = "PPL_CUDA_INT8"
    /\ dispatcher = "conservative"
    /\ dispatchings = <<>>
    /\ quant_types = {}
    /\ do_quantize = FALSE
    /\ calib_dataloader = <<>>
    /\ calib_steps = <<>>
    /\ pc = 1
    /\ err = "none"
    /\ dispatching_table = <<>>
    /\ passes = <<>>
    /\ quantize_calls = <<>>
    /\ automatic = <<>>
    /\ stages = <<>>
    /\ platformAtCall = <<>>
    /\ NoSettings
    /\ NoExports

NextFormat == DoFormatPass

SpecFormat == InitFormat /\ [][NextFormat]_vars

(***************************************************************************)
(* export_ppq_graph.  A path is a string.                                  *)
(***************************************************************************)
\* keys of EXPORTERS
EXPORTERS ==
    {"PPL_DSP_INT8", "PPL_DSP_TI_IN8", "PPL_CUDA_INT8", "SNPE_INT8", "NXP_INT8",
     "ONNX", "ONNXRUNTIME", "CAFFE", "NATIVE", "EXTENSION", "ORT_OOS_INT8",
     "METAX_INT8_C", "METAX_INT8_T"}

\* EXPORTING_POSTFIX, "" for a platform that is no key of it
Postfix(p) ==
    CASE p \in {"PPL_DSP_INT8", "PPL_DSP_TI_IN8", "SNPE_INT8", "NXP_INT8", "CAFFE"}
             -> ".caffemodel"
      [] p \in {"PPL_CUDA_INT8", "ONNX", "ONNXRUNTIME", "ORT_OOS_INT8",
                "METAX_INT8_C", "METAX_INT8_T"} -> ".onnx"
      [] p = "NATIVE"    -> ".native"
      [] p = "EXTENSION" -> ".ext"
      [] OTHER           -> ""

\* the graph_save_to and config_save_to a caller passes (export: 731-732)
GraphSaveTo  == "quantized"
ConfigSaveTo == "quantized.json"

\* mutant: the graph path is examined as the caller gave it
ExportPathsRaw(p, cfg) == [graph_save_to |-> GraphSaveTo, config_save_to |-> cfg]

\* graph_save_to += postfix
ExportPaths(p, cfg) ==
    [graph_save_to |-> GraphSaveTo \o Postfix(p), config_save_to |-> cfg]

RECURSIVE CheckPaths(_, _, _)
\* the loop over [graph_save_to, config_save_to]: the warnings it issues and
\* the exception it raises
CheckPaths(paths, fs, warned) ==
    IF paths = <<>> THEN [warnings |-> warned, err |-> "none"]
    ELSE LET save_path == Head(paths)
         IN  IF save_path = <<>> THEN CheckPaths(Tail(paths), fs, warned)
             ELSE IF fs[save_path[1]] = "file"
                 THEN CheckPaths(Tail(paths), fs, Append(warned, save_path[1]))
             ELSE IF fs[save_path[1]] = "dir"
                 THEN [warnings |-> warned, err |-> "FileExistsError"]
             ELSE CheckPaths(Tail(paths), fs, warned)

\* if platform not in EXPORTERS: raise KeyError
CheckExporter(p) == IF p \notin EXPORTERS THEN "KeyError" ELSE "none"

\* the platforms export_ppq_graph is called with
ExportPlatforms == {"PPL_CUDA_INT8", "CAFFE", "TRT_INT8", "FP32"}

\* the paths the file systems explored may hold
FilePaths ==
    {GraphSaveTo, ConfigSaveTo} \cup
    {GraphSaveTo \o Postfix(p) : p \in ExportPlatforms}

FileSystems == [FilePaths -> {"absent", "file", "dir"}]

\* the loop over the two paths
DoCheckPaths ==
    /\ Stmt = "check_paths"
    /\ LET a == ExportPaths(platform, config_save_to)
           r == CheckPaths(<< <<a.graph_save_to>>, a.config_save_to >>, files,
                           <<>>)
       IN  /\ warnings' = warnings \o r.warnings
           /\ Check(r.err)
    /\ UNCHANGED <<entry, platform, do_quantize, calib_dataloader, calib_steps,
                   dispatcher, dispatchings, quant_types, graph_arg, setting,
                   daddy, document, loaded, files, exports, config_save_to,
                   graph, dispatching_table, passes, quantize_calls, automatic,
                   stages, platformAtCall>>

\* the EXPORTERS lookup
DoCheckExporter ==
    /\ Stmt = "check_exporter"
    /\ Check(CheckExporter(platform))
    /\ UNCHANGED <<inputs, automatic, graph, dispatching_table, passes,
                   quantize_calls, stages, platformAtCall>>

\* exporter.export(file_path=graph_save_to, config_path=config_save_to, graph)
DoExport ==
    /\ Stmt = "export"
    /\ LET a == ExportPaths(platform, config_save_to)
       IN  exports' = Append(exports, [file_path   |-> a.graph_save_to,
                                       config_path |-> a.config_save_to,
                                       graph       |-> graph,
                                       stages      |-> stages])
    /\ pc' = pc + 1
    /\ UNCHANGED <<entry, platform, do_quantize, calib_dataloader, calib_steps,
                   dispatcher, dispatchings, quant_types, graph_arg, setting,
                   daddy, document, loaded, warnings, files, config_save_to,
                   err, graph, dispatching_table, passes, quantize_calls,
                   automatic, stages, platformAtCall>>

InitExport ==
    /\ entry \in {"export_ppq_graph", "load_and_export", "dispatch_and_export"}
    /\ platform \in ExportPlatforms
    /\ files \in FileSystems
    /\ config_save_to \in {<<>>, <<ConfigSaveTo>>}
    /\ IF entry = "load_and_export" THEN graph = NoGraph ELSE graph \in LoadedGraphs
    /\ graph_arg = graph
    /\ IF entry = "dispatch_and_export"
          THEN /\ dispatcher \in DispatcherNames
               /\ dispatchings \in {t \in OverrideTables : Len(t) <= 1}
               /\ files = [f \in FilePaths |-> "absent"]
          ELSE /\ dispatcher = "conservative"
               /\ dispatchings = <<>>
    /\ quant_types = {}
    /\ do_quantize = FALSE
    /\ calib_dataloader = <<>>
    /\ calib_steps = <<>>
    /\ pc = 1
    /\ err = "none"
    /\ dispatching_table = <<>>
    /\ passes = <<>>
    /\ quantize_calls = <<>>
    /\ automatic = <<>>
    /\ stages = <<>>
    /\ platformAtCall = <<>>
    /\ exports = <<>>
    /\ NoSettings

NextExport ==
    \/ DoLoadGraph
    \/ DoFormatPass
    \/ DoAssertPlatform
    \/ DoSelectDispatcher
    \/ DoDispatch
    \/ DoOverride
    \/ DoCommit
    \/ DoInsertSwitcher
    \/ DoCheckPaths
    \/ DoCheckExporter
    \/ DoExport

SpecExport == InitExport /\ [][NextExport]_vars

(***************************************************************************)
(* Python values: a type tag, the strings and the number the value holds.  *)
(***************************************************************************)
PyNone        == [type |-> "NoneType", str |-> <<>>, num |-> 0]
PyStr(x)      == [type |-> "str", str |-> <<x>>, num |-> 0]
PyList(xs)    == [type |-> "list", str |-> xs, num |-> 0]
PyInt(n)      == [type |-> "int", str |-> <<>>, num |-> n]
PyFloat(x)    == [type |-> "float", str |-> <<x>>, num |-> 0]
PyBool(b)     == [type |-> "bool", str |-> <<>>, num |-> IF b THEN 1 ELSE 0]
\* a member of the TargetPlatform enum, which is no native type
PyPlatform(x) == [type |-> "TargetPlatform", str |-> <<x>>, num |-> 0]

(***************************************************************************)
(* UnbelievableUserFriendlyQuantizationSetting: the object is its __dict__. *)
(***************************************************************************)
\* if isinstance(x, str): x = [x]
ListIfStr(x) == IF x.type = "str" THEN PyList(x.str) ELSE x

\* __init__
Constructor(p, steps, lr, outputs, calib, equal, non_quantable) ==
    [equalization       |-> equal,
     finetune_steps     |-> steps,
     finetune_lr        |-> lr,
     calibration        |-> calib,
     platform           |-> p,
     non_quantable_op   |-> ListIfStr(non_quantable),
     interested_outputs |-> ListIfStr(outputs)]

\* the defaults of __init__
DefaultFinetuneSteps == PyInt(5000)
DefaultFinetuneLr    == PyFloat("3e-4")
DefaultCalibration   == PyStr("percentile")

\* QuantizationSettingFactory.default_setting(): the parts of the internal
\* setting that convert_to_daddy_setting and dispatch_graph touch
DefaultSetting ==
    [calib_algorithm         |-> PyStr("percentile"),
     fuse_conv_add           |-> TRUE,
     force_alignment_overlap |-> FALSE,
     advanced_optimization   |-> FALSE,
     advanced_optimization_setting |->
         [steps |-> PyInt(2500), lr |-> PyFloat("1e-3"), limit |-> "3.0",
          interested_outputs |-> PyList(<<>>)],
     equalization            |-> FALSE,
     equalization_setting    |->
         [iterations |-> 10, opt_level |-> 2, value_threshold |-> "0.5"],
     dispatcher              |-> "conservative",
     dispatchings            |-> <<>>]

\* DispatchingTable.append: dispatchings[operation] = platform, a dict update
DictAppend(table, opname, value) ==
    IF \E i \in 1..Len(table) : table[i].name = opname
        THEN [i \in 1..Len(table) |->
                 IF table[i].name = opname THEN [name |-> opname, value |-> value]
                 ELSE table[i]]
        ELSE Append(table, [name |-> opname, value |-> value])

\* the value convert_to_daddy_setting hands to append: the member
\* TargetPlatform.FP32 itself, not its int code
FP32Member == [type |-> "TargetPlatform", value |-> 7]

RECURSIVE AppendNonQuantable(_, _)
\* for op_name in self.non_quantable_op: daddy.dispatching_table.append(...)
AppendNonQuantable(table, names) ==
    IF names = <<>> THEN table
    ELSE AppendNonQuantable(DictAppend(table, Head(names), FP32Member), Tail(names))

\* mutant: bias-add fusion is switched on for every platform
FuseConvAddAlways(p) == TRUE

\* platform in {PPL_CUDA_INT4, PPL_CUDA_INT8}
FuseConvAdd(p) == p.str[1] \in {"PPL_CUDA_INT4", "PPL_CUDA_INT8"}

\* platform in {METAX_INT8_C, METAX_INT8_T}
ForceAlignment(p) == p.str[1] \in {"METAX_INT8_C", "METAX_INT8_T"}

\* self.finetune_steps > 0
Finetune(steps) == steps.num > 0

\* convert_to_daddy_setting
Convert(self) ==
    LET d0 == [DefaultSetting EXCEPT
                  !.calib_algorithm = self.calibration,
                  !.fuse_conv_add = FuseConvAdd(self.platform)]
        d1 == IF ForceAlignment(self.platform)
                  THEN [d0 EXCEPT !.force_alignment_overlap = TRUE] ELSE d0
        d2 == IF Finetune(self.finetune_steps)
                  THEN [d1 EXCEPT
                           !.advanced_optimization = TRUE,
                           !.advanced_optimization_setting =
                               [steps |-> self.finetune_steps,
                                lr    |-> self.finetune_lr,
                                limit |-> "2.0",
                                interested_outputs |-> self.interested_outputs]]
                  ELSE d1
        d3 == IF self.equalization = PyBool(TRUE)
                  THEN [d2 EXCEPT
                           !.equalization = TRUE,
                           !.equalization_setting =
                               [iterations |-> 3, opt_level |-> 1,
                                value_threshold |-> "0"]]
                  ELSE d2
    IN  IF self.non_quantable_op.type = "NoneType" THEN d3
        ELSE [d3 EXCEPT !.dispatchings =
                 AppendNonQuantable(d3.dispatchings, self.non_quantable_op.str)]

\* the platforms a user-facing setting is built for
SettingPlatforms ==
    {"PPL_CUDA_INT8", "PPL_CUDA_INT4", "METAX_INT8_C", "METAX_INT8_T", "TRT_INT8"}

\* finetune_steps arguments
FinetuneSteps == {PyInt(-1), PyInt(0), PyInt(1), DefaultFinetuneSteps}

\* non_quantable_op arguments: None, a single name, lists with a repeated
\* name and with a name that is in no graph
NonQuantableOps ==
    {PyNone, PyList(<<>>), PyStr("conv_1"), PyList(<<"relu_1", "conv_99">>),
     PyList(<<"conv_1", "relu_1", "conv_1">>)}

\* the settings a user builds with the constructor
BuiltSettings ==
    {Constructor(PyPlatform(p), steps, DefaultFinetuneLr, outs, DefaultCalibration,
                 PyBool(eq), nq) :
        p \in SettingPlatforms, steps \in FinetuneSteps,
        outs \in {PyNone, PyStr("relu_1")}, eq \in BOOLEAN, nq \in NonQuantableOps}

\* the caller translates the setting and passes the result to dispatch_graph
DoConvert ==
    /\ Stmt = "convert_to_daddy_setting"
    /\ daddy' = <<Convert(setting[1])>>
    /\ dispatcher' = daddy'[1].dispatcher
    /\ dispatchings' = daddy'[1].dispatchings
    /\ pc' = pc + 1
    /\ UNCHANGED <<entry, platform, do_quantize, calib_dataloader, calib_steps,
                   quant_types, graph_arg, setting, document, loaded, warnings,
                   files, exports, config_save_to, err, graph, dispatching_table,
                   passes,
                   quantize_calls, automatic, stages, platformAtCall>>

InitSugar ==
    /\ entry = "convert_and_dispatch"
    /\ \E s \in BuiltSettings :
          /\ setting = <<s>>
          /\ platform = s.platform.str[1]
    /\ dispatcher = "unset"
    /\ dispatchings = <<>>
    /\ do_quantize = FALSE
    /\ calib_dataloader = <<>>
    /\ calib_steps = <<>>
    /\ graph \in LoadedGraphs
    /\ graph_arg = graph
    /\ pc = 1
    /\ err = "none"
    /\ dispatching_table = <<>>
    /\ passes = <<>>
    /\ quantize_calls = <<>>
    /\ automatic = <<>>
    /\ stages = <<>>
    /\ platformAtCall = <<>>
    /\ quant_types = {}
    /\ daddy = <<>>
    /\ document = <<>>
    /\ loaded = <<>>
    /\ warnings = <<>>
    /\ NoExports

NextSugar ==
    \/ DoConvert
    \/ DoAssertPlatform
    \/ DoSelectDispatcher
    \/ DoDispatch
    \/ DoOverride
    \/ DoCommit
    \/ DoInsertSwitcher

SpecSugar == InitSugar /\ [][NextSugar]_vars

(***************************************************************************)
(* Settings files.  A JSON document is its type and, for an object, its    *)
(* items in document order.                                                *)
(***************************************************************************)
\* TargetPlatform._member_names_
MemberNames == QUANTIZER_COLLECTION \cup EXPORTERS \cup
               {"FP32", "SHAPE_OR_INDEX", "UNSPECIFIED"}

\* the path a setting is written to and read from
SettingPath == "setting.json"

\* the keys of self.__dict__ as json.dump(sort_keys=True) writes them
SortedKeys ==
    <<"calibration", "equalization", "finetune_lr", "finetune_steps",
      "interested_outputs", "non_quantable_op", "platform">>

\* mutant: the platform is dumped as the member it is
DumpKeepMember(self) ==
    [type  |-> "dict",
     items |-> [i \in 1..Len(SortedKeys) |->
                   [key |-> SortedKeys[i], value |-> self[SortedKeys[i]]]]]

\* to_json: dump_dict = self.__dict__.copy(); dump_dict['platform'] =
\* self.platform.name; json.dump(dump_dict, sort_keys=True)
Dump(self) ==
    [type  |-> "dict",
     items |-> [i \in 1..Len(SortedKeys) |->
                   [key   |-> SortedKeys[i],
                    value |-> IF SortedKeys[i] = "platform"
                                  THEN PyStr(self.platform.str[1])
                                  ELSE self[SortedKeys[i]]]]]

\* to_json up to the dump: the warning it issues and the exception it raises
CheckSettingPath(kind) ==
    IF kind = "dir" THEN [warnings |-> <<>>, err |-> "FileExistsError"]
    ELSE IF kind = "file" THEN [warnings |-> <<SettingPath>>, err |-> "none"]
    ELSE [warnings |-> <<>>, err |-> "none"]

RECURSIVE LoadItemsAddUnknown(_, _, _)
\* mutant: a key that is no field is added to the object without a warning
LoadItemsAddUnknown(obj, items, warned) ==
    IF items = <<>> THEN [setting |-> obj, warnings |-> warned]
    ELSE LET key   == Head(items).key
             value == Head(items).value
         IN  IF key = "platform" THEN LoadItemsAddUnknown(obj, Tail(items), warned)
             ELSE LoadItemsAddUnknown((key :> value) @@ obj, Tail(items), warned)

RECURSIVE LoadItems(_, _, _)
\* from_file: the loop over loaded.items()
LoadItems(obj, items, warned) ==
    IF items = <<>> THEN [setting |-> obj, warnings |-> warned]
    ELSE LET key   == Head(items).key
             value == Head(items).value
         IN  IF key = "platform" THEN LoadItems(obj, Tail(items), warned)
             ELSE IF key \in DOMAIN obj
                 THEN LoadItems([obj EXCEPT ![key] = value], Tail(items), warned)
             ELSE LoadItems(obj, Tail(items), Append(warned, key))

HasKey(doc, key) == \E i \in 1..Len(doc.items) : doc.items[i].key = key
ValueOf(doc, key) ==
    doc.items[CHOOSE i \in 1..Len(doc.items) : doc.items[i].key = key].value

\* platform in TargetPlatform._member_names_
IsMemberName(v) == v.type = "str" /\ v.str[1] \in MemberNames

\* UnbelievableUserFriendlyQuantizationSetting(platform)
DefaultConstructed(p) ==
    Constructor(p, DefaultFinetuneSteps, DefaultFinetuneLr, PyNone,
                DefaultCalibration, PyBool(TRUE), PyNone)

\* from_file: what it returns (<<>>: nothing), warns about and raises, for a
\* path of the given kind holding the given document
FromFile(kind, doc) ==
    LET fail(e) == [setting |-> <<>>, warnings |-> <<>>, err |-> e]
    IN  IF kind = "absent" THEN fail("FileNotFoundError")
        ELSE IF kind = "dir" THEN fail("IsADirectoryError")
        ELSE IF doc[1].type # "dict" THEN fail("AssertionError")
        ELSE IF ~HasKey(doc[1], "platform") THEN fail("AssertionError")
        ELSE IF ~IsMemberName(ValueOf(doc[1], "platform")) THEN fail("KeyError")
        ELSE LET p == PyPlatform(ValueOf(doc[1], "platform").str[1])
                 r == LoadItems(DefaultConstructed(p), doc[1].items, <<>>)
             IN  [setting |-> <<r.setting>>, warnings |-> r.warnings, err |-> "none"]

\* items a document may hold besides the platform: two fields, a key that is
\* no field and a field name in the wrong case
ExtraItems ==
    <<[key |-> "finetune_steps", value |-> PyInt(0)],
      [key |-> "foo", value |-> PyInt(1)],
      [key |-> "non_quantable_op", value |-> PyList(<<"conv_1">>)],
      [key |-> "Calibration", value |-> PyStr("kl")]>>

ItemsAt(S) ==
    LET idx == SelectSeq(<<1, 2, 3, 4>>, LAMBDA i : i \in S)
    IN  [j \in 1..Len(idx) |-> ExtraItems[idx[j]]]

\* the platform entry of a document: none, a member name, names that are no
\* member, a number
PlatformItems ==
    {<<>>} \cup
    {<<[key |-> "platform", value |-> v]>> :
        v \in {PyStr("TRT_INT8"), PyStr("NOT_A_PLATFORM"), PyStr("trt_int8"),
               PyInt(7)}}

\* the documents a settings file holds
Documents ==
    {[type |-> "list", items |-> <<>>]} \cup
    UNION {{[type |-> "dict", items |-> p \o ItemsAt(S)],
            [type |-> "dict", items |-> ItemsAt(S) \o p]} :
           p \in PlatformItems, S \in SUBSET (1..4)}

\* to_json
DoToJson ==
    /\ Stmt = "to_json"
    /\ LET r == CheckSettingPath(files[SettingPath])
       IN  /\ warnings' = warnings \o r.warnings
           /\ Check(r.err)
           /\ IF r.err = "none"
                 THEN /\ document' = <<Dump(setting[1])>>
                      /\ files' = [files EXCEPT ![SettingPath] = "file"]
                 ELSE UNCHANGED <<document, files>>
    /\ UNCHANGED <<entry, platform, do_quantize, calib_dataloader, calib_steps,
                   dispatcher, dispatchings, quant_types, graph_arg, setting,
                   daddy, loaded, exports, config_save_to, graph,
                   dispatching_table, passes, quantize_calls, automatic, stages,
                   platformAtCall>>

\* from_file
DoFromFile ==
    /\ Stmt = "from_file"
    /\ LET r == FromFile(files[SettingPath], document)
       IN  /\ loaded' = r.setting
           /\ warnings' = warnings \o r.warnings
           /\ Check(r.err)
    /\ UNCHANGED <<entry, platform, do_quantize, calib_dataloader, calib_steps,
                   dispatcher, dispatchings, quant_types, graph_arg, setting,
                   daddy, document, files, exports, config_save_to, graph,
                   dispatching_table, passes, quantize_calls, automatic, stages,
                   platformAtCall>>

InitSettingsFile ==
    /\ entry \in {"from_file", "to_json_from_file"}
    /\ \E kind \in {"absent", "file", "dir"} :
          /\ files = [f \in {SettingPath} |-> kind]
          /\ IF kind = "file" THEN \E d \in Documents : document = <<d>>
             ELSE document = <<>>
    /\ IF entry = "from_file" THEN setting = <<>>
       ELSE /\ \E s \in BuiltSettings : setting = <<s>>
            /\ document \in {<<>>, <<[type |-> "list", items |-> <<>>]>>}
    /\ platform = "PPL_CUDA_INT8"
    /\ dispatcher = "conservative"
    /\ dispatchings = <<>>
    /\ quant_types = {}
    /\ do_quantize = FALSE
    /\ calib_dataloader = <<>>
    /\ calib_steps = <<>>
    /\ graph = NoGraph
    /\ graph_arg = graph
    /\ pc = 1
    /\ err = "none"
    /\ dispatching_table = <<>>
    /\ passes = <<>>
    /\ quantize_calls = <<>>
    /\ automatic = <<>>
    /\ stages = <<>>
    /\ platformAtCall = <<>>
    /\ daddy = <<>>
    /\ loaded = <<>>
    /\ warnings = <<>>
    /\ exports = <<>>
    /\ config_save_to = <<>>

NextSettingsFile ==
    \/ DoToJson
    \/ DoFromFile

SpecSettingsFile == InitSettingsFile /\ [][NextSettingsFile]_vars

(***************************************************************************)
(* Positions and shorthands used by the properties.                        *)
(***************************************************************************)
\* number of statements of the entry point that precede dispatch_graph's own
DispatchBase ==
    CASE entry = "dispatch_graph"       -> 0
      [] entry = "convert_and_dispatch" -> 1
      [] entry = "dispatch_and_export"  -> 0
      [] OTHER -> Len(Body(entry)) - Len(dispatch_graph) - 1

\* dispatch_graph has been entered
DispatchEntered == pc > DispatchBase

\* dispatch_graph has returned normally
DispatchReturned == err = "none" /\ pc > DispatchBase + Len(dispatch_graph)

\* dispatch_graph has raised
DispatchRaised == err # "none" /\ DispatchEntered

Ran(stage) == \E i \in 1..Len(stages) : stages[i] = stage

\* entry i of the dispatching table names an operation of the graph
Live(i) == dispatchings[i].name \in graph.operations

\* entry i carries a valid platform code
ValidCode(i) ==
    /\ dispatchings[i].value.type = "int"
    /\ TargetPlatform(dispatchings[i].value.value) # "invalid"

\* entry i carries an int that is no platform code
InvalidCode(i) ==
    /\ dispatchings[i].value.type = "int"
    /\ TargetPlatform(dispatchings[i].value.value) = "invalid"

NoSwitcher == \A e \in graph.edges : graph.switchers[e] = 0

(***************************************************************************)
(* C1 - Override precedence: once dispatch_graph has returned, every       *)
(* operation of the graph that the dispatching table names with a valid    *)
(* platform code has the platform decoded from that code, whatever the     *)
(* automatic dispatcher proposed for it.                                   *)
(***************************************************************************)
C1_OverridePrecedence ==
    DispatchReturned =>
        \A i \in 1..Len(dispatchings) :
            (Live(i) /\ ValidCode(i)) =>
                graph.platform[dispatchings[i].name]
                    = TargetPlatform(dispatchings[i].value.value)

\* dispatch_graph returned with an override that contradicts the automatic table
C1_Witness ==
    /\ DispatchReturned
    /\ \E i \in 1..Len(dispatchings) :
          /\ Live(i) /\ ValidCode(i)
          /\ dispatchings[i].name \in DOMAIN automatic
          /\ automatic[dispatchings[i].name]
                # TargetPlatform(dispatchings[i].value.value)
          /\ graph.platform[dispatchings[i].name]
                = TargetPlatform(dispatchings[i].value.value)

(***************************************************************************)
(* C2 - Coverage: once dispatch_graph has returned, every operation of the *)
(* graph has an entry in the final dispatching table and its platform      *)
(* field equals that entry.                                                *)
(***************************************************************************)
C2_Coverage ==
    DispatchReturned =>
        \A o \in graph.operations :
            /\ o \in DOMAIN dispatching_table
            /\ graph.platform[o] = dispatching_table[o]

\* dispatch_graph returned on a graph of three operations, one of them covered
\* only by an override
C2_Witness ==
    /\ DispatchReturned
    /\ Cardinality(graph.operations) = 3
    /\ \E o \in graph.operations : o \notin DOMAIN automatic

(***************************************************************************)
(* C3 - Dispatch commit is all-or-nothing: whenever dispatch_graph has     *)
(* raised, every operation's platform field is what it was when            *)
(* dispatch_graph was entered.                                             *)
(***************************************************************************)
C3_AllOrNothing ==
    DispatchRaised => graph.platform = platformAtCall

(***************************************************************************)
(* C4 - Invalid override code: when the override loop has run over a table *)
(* that names an operation of the graph with an int that is no platform    *)
(* code, dispatch_graph has raised, no platform field has been changed,    *)
(* the commit loop and the switcher have not run and no switch node exists.*)
(***************************************************************************)
C4_InvalidOverrideFatal ==
    (/\ Ran("override")
     /\ \E i \in 1..Len(dispatchings) : Live(i) /\ InvalidCode(i))
    => /\ err \in {"ValueError", "AssertionError"}
       /\ graph.platform = platformAtCall
       /\ NoSwitcher
       /\ ~Ran("commit")
       /\ ~Ran("insert_switcher")

\* a valid override that changed the local table precedes the invalid one
C4_Witness ==
    /\ Ran("override")
    /\ err = "ValueError"
    /\ \E i, j \in 1..Len(dispatchings) :
          /\ i < j
          /\ Live(i) /\ ValidCode(i)
          /\ Live(j) /\ InvalidCode(j)
          /\ dispatchings[i].name \in DOMAIN automatic
          /\ automatic[dispatchings[i].name] # dispatching_table[dispatchings[i].name]

(***************************************************************************)
(* C5 - Stale-override tolerance: entries whose operation name is not in   *)
(* the graph never make the override loop raise, whatever their value, and *)
(* the table after the loop, the exception of the loop and the committed   *)
(* platforms are those of the dispatching table without these entries.     *)
(***************************************************************************)
LiveOverrides == SelectSeq(dispatchings, LAMBDA e : e.name \in graph.operations)

OverrideJustRan == stages # <<>> /\ stages[Len(stages)] = "override"

C5_StaleOverrideIgnored ==
    LET r == ApplyOverrides(automatic, LiveOverrides, graph.operations)
    IN  /\ (OverrideJustRan /\ \A i \in 1..Len(dispatchings) : ~Live(i))
               => (err = "none" /\ dispatching_table = automatic)
        /\ OverrideJustRan => (err = r.err /\ dispatching_table = r.table)
        /\ DispatchReturned =>
               \A o \in graph.operations : graph.platform[o] = r.table[o]

\* dispatch_graph returned although the table pins the fused-away batch-norm to
\* something that is no platform, next to a valid override of a live operation
C5_Witness ==
    /\ DispatchReturned
    /\ "bn_1" \notin graph.operations
    /\ \E i, j \in 1..Len(dispatchings) :
          /\ dispatchings[i].name = "bn_1" /\ ~ValidCode(i)
          /\ Live(j) /\ ValidCode(j)

C7_SwitcherAfterCommit ==
    [][Stmt = "insert_switcher" =>
          /\ Ran("commit")
          /\ \A o \in graph.operations :
                o \in DOMAIN dispatching_table
                /\ graph.platform[o] = dispatching_table[o]
          /\ graph'.platform = graph.platform
          /\ graph'.operations = graph.operations
          /\ graph'.edges = graph.edges
          /\ \A e \in graph.edges : graph'.switchers[e] >= graph.switchers[e]
          /\ dispatching_table' = dispatching_table
          /\ stages' = Append(stages, "insert_switcher")]_vars

\* the switcher has inserted a node into a committed graph
C7_Witness ==
    /\ Ran("insert_switcher")
    /\ \E e \in graph.edges : graph.switchers[e] = 1
    /\ \A o \in graph.operations : graph.platform[o] = dispatching_table[o]
    /\ graph.platform # platformAtCall

(***************************************************************************)
(* C8 - Stage ordering: in quantize_onnx_model and quantize_caffe_model    *)
(* the stages run in the order load, normalization, automatic dispatch,    *)
(* override reconciliation, platform commit, boundary insertion,           *)
(* quantizer, each at most once; dispatch starts only when every           *)
(* normalization pass has run, the switcher only when every operation is   *)
(* committed, and a normal return has run them all.                        *)
(***************************************************************************)
PipelineStages ==
    <<"load_graph", "format_graph", "dispatch", "override", "commit",
      "insert_switcher", "quantizer">>

IsPrefix(s, t) == Len(s) <= Len(t) /\ \A i \in 1..Len(s) : s[i] = t[i]

C8_StageOrder ==
    entry \in {"quantize_onnx_model", "quantize_caffe_model"} =>
        /\ IsPrefix(stages, PipelineStages)
        /\ Ran("dispatch") => passes = FormatPasses
        /\ Ran("insert_switcher") =>
               \A o \in graph.operations : graph.platform[o] = dispatching_table[o]
        /\ Stmt = "returned" => stages = PipelineStages

\* quantize_caffe_model returned after quantizing a graph with a switch node
C8_Witness ==
    /\ entry = "quantize_caffe_model"
    /\ Stmt = "returned"
    /\ stages = PipelineStages
    /\ quantize_calls # <<>>
    /\ ~NoSwitcher

(***************************************************************************)
(* C9 - Calibration precondition: a quantize_*_model call with do_quantize *)
(* and without a calibration data source and a positive step count never   *)
(* gets as far as loading, normalizing, dispatching or quantizing a graph. *)
(***************************************************************************)
C9_CalibrationPrecondition ==
    (/\ entry \in {"quantize_onnx_model", "quantize_caffe_model"}
     /\ do_quantize
     /\ \/ calib_dataloader = <<>>
        \/ calib_steps = <<>>
        \/ calib_steps[1] <= 0)
    => /\ graph = NoGraph
       /\ stages = <<>>
       /\ passes = <<>>
       /\ quantize_calls = <<>>

(***************************************************************************)
(* C10 - Unregistered platform fails fast: called with a platform that is  *)
(* not a quantized platform or has no quantizer, quantize_onnx_model,      *)
(* quantize_caffe_model and dispatch_graph never get past their first      *)
(* statement: no graph is loaded, no normalization pass, dispatch stage,   *)
(* platform commit or switch insertion happens, and the only way on is a   *)
(* raise.                                                                  *)
(***************************************************************************)
C10_UnregisteredPlatformFailsFast ==
    (~is_quantized_platform(platform) \/ platform \notin QUANTIZER_COLLECTION)
    => /\ pc = 1
       /\ err \in {"none", "ValueError", "KeyError", "AssertionError"}
       /\ entry # "dispatch_graph" => graph = NoGraph
       /\ graph.platform = [o \in graph.operations |-> "UNSPECIFIED"]
       /\ NoSwitcher
       /\ stages = <<>>
       /\ passes = <<>>
       /\ dispatching_table = <<>>
       /\ quantize_calls = <<>>

\* dispatch_graph has raised on a platform without quantizer, graph untouched
C10_Witness ==
    /\ entry = "dispatch_graph"
    /\ platform \notin QUANTIZER_COLLECTION
    /\ err = "AssertionError"
    /\ graph.operations # {}
    /\ stages = <<>>

(***************************************************************************)
(* C18 - Missing dispatcher kind: in a call of dispatch_graph whose         *)
(* setting.dispatcher, lower-cased, is no key of DISPATCHER_TABLE, control  *)
(* never passes the dispatcher lookup; the lookup raises ValueError; the    *)
(* automatic dispatcher has not run, no override has been read, no          *)
(* operation's platform field has changed and no switch node exists.        *)
(***************************************************************************)
UnknownDispatcher == Lower(dispatcher) \notin DISPATCHER_TABLE

C18_MissingDispatcherFatal ==
    (DispatchEntered /\ UnknownDispatcher) =>
        /\ pc <= DispatchBase + 2
        /\ (pc = DispatchBase + 2 /\ err # "none") => err = "ValueError"
        /\ (pc = DispatchBase + 1 /\ err # "none") => err = "AssertionError"
        /\ ~Ran("dispatch")
        /\ ~Ran("override")
        /\ ~Ran("commit")
        /\ ~Ran("insert_switcher")
        /\ automatic = <<>>
        /\ dispatching_table = <<>>
        /\ pc > DispatchBase + 1 => graph.platform = platformAtCall
        /\ NoSwitcher
        /\ quantize_calls = <<>>

\* the lookup has raised in a call that carries a live override
C18_Witness ==
    /\ UnknownDispatcher
    /\ pc = DispatchBase + 2
    /\ err = "ValueError"
    /\ graph.operations # {}
    /\ \E i \in 1..Len(dispatchings) : Live(i) /\ ValidCode(i)

(***************************************************************************)
(* C11 - Non-quantizable names are sugar over overrides: once              *)
(* convert_to_daddy_setting has run, the resulting dispatching table has an *)
(* entry for every name in non_quantable_op; dispatch_graph called with the *)
(* resulting setting never raises, whatever complete table the automatic   *)
(* dispatcher returned; and when it has returned, every such name that is  *)
(* an operation of the graph has the platform FP32.                        *)
(***************************************************************************)
ConvertRan == daddy # <<>>

NonQuantableNames ==
    {setting[1].non_quantable_op.str[i] :
        i \in 1..Len(setting[1].non_quantable_op.str)}

\* the automatic dispatcher has classified every operation of the graph
AutomaticComplete == Ran("dispatch") => DOMAIN automatic = graph.operations

C11_SugarOverOverrides ==
    ConvertRan =>
        /\ \A n \in NonQuantableNames :
              \E i \in 1..Len(dispatchings) : dispatchings[i].name = n
        /\ AutomaticComplete => err = "none"
        /\ DispatchReturned =>
              \A n \in NonQuantableNames \cap graph.operations :
                  graph.platform[n] = "FP32"

(***************************************************************************)
(* C19 - Platform-specific translation defaults: in the setting returned   *)
(* by convert_to_daddy_setting, fuse_conv_add is true exactly when the     *)
(* platform is PPL_CUDA_INT4 or PPL_CUDA_INT8; force_alignment_overlap is  *)
(* true when the platform is METAX_INT8_C or METAX_INT8_T and has the      *)
(* default's value otherwise; advanced optimization is on exactly when     *)
(* finetune_steps > 0, and then with the given steps and learning rate.    *)
(***************************************************************************)
C19_TranslationDefaults ==
    ConvertRan =>
        LET d == daddy[1]
            s == setting[1]
            p == s.platform.str[1]
        IN  /\ d.fuse_conv_add = (p \in {"PPL_CUDA_INT4", "PPL_CUDA_INT8"})
            /\ d.force_alignment_overlap =
                  IF p \in {"METAX_INT8_C", "METAX_INT8_T"} THEN TRUE
                  ELSE DefaultSetting.force_alignment_overlap
            /\ d.advanced_optimization = (s.finetune_steps.num > 0)
            /\ s.finetune_steps.num > 0 =>
                  /\ d.advanced_optimization_setting.steps = s.finetune_steps
                  /\ d.advanced_optimization_setting.lr = s.finetune_lr
            /\ s.finetune_steps.num <= 0 =>
                  d.advanced_optimization_setting
                      = DefaultSetting.advanced_optimization_setting

\* a METAX setting with fine-tuning, and a CUDA setting without, translated
C19_Witness ==
    /\ ConvertRan
    /\ setting[1].platform.str[1] = "METAX_INT8_T"
    /\ setting[1].finetune_steps.num > 0
    /\ daddy[1].force_alignment_overlap
    /\ ~daddy[1].fuse_conv_add

(***************************************************************************)
(* C12 - Automatic classification: with no overrides, once the dispatcher  *)
(* has run every operation of the graph has exactly one entry: a           *)
(* shape/index operation has SHAPE_OR_INDEX wherever it stands, also when  *)
(* its kind is quantizable; a quantizable-kind operation on the numeric    *)
(* path has the sentinel UNSPECIFIED, never a platform that has a          *)
(* quantizer; every other operation has FP32.  When dispatch_graph has     *)
(* returned the operations carry exactly these platforms.                  *)
(***************************************************************************)
Classification(o) ==
    IF Kind(o) \in ShapeIndexKinds THEN "SHAPE_OR_INDEX"
    ELSE IF Kind(o) \in quant_types /\ OnNumericPath(graph, o) THEN "UNSPECIFIED"
    ELSE "FP32"

SameStructure(g, h) ==
    /\ g.operations = h.operations
    /\ g.edges = h.edges
    /\ g.outputs = h.outputs

C14_NormalizationIdempotent ==
    Len(passes) >= Len(FormatPasses) =>
        SameStructure(graph, format_graph(graph_arg))

(***************************************************************************)
(* C15 - Normalization pass order: every call of format_graph issues       *)
(* exactly the seven commands FORMAT_CONSTANT_INPUT, FUSE_BN,              *)
(* FORMAT_PARAMETERS, FORMAT_CAST, FORMAT_SLICE, FORMAT_CLIP,              *)
(* DELETE_ISOLATED, once each and in this order, and returns after the     *)
(* last one.                                                               *)
(***************************************************************************)
ExpectedPasses ==
    <<"FORMAT_CONSTANT_INPUT", "FUSE_BN", "FORMAT_PARAMETERS", "FORMAT_CAST",
      "FORMAT_SLICE", "FORMAT_CLIP", "DELETE_ISOLATED">>

\* the calls of format_graph that have returned
FormatReturned == pc - 1

C15_PassOrder ==
    /\ \A i \in 1..Len(passes) :
          passes[i] = ExpectedPasses[((i - 1) % Len(ExpectedPasses)) + 1]
    /\ Len(passes) >= FormatReturned * Len(ExpectedPasses)
    /\ Len(passes) < (FormatReturned + 1) * Len(ExpectedPasses)
          \/ Stmt = "returned"
    /\ Stmt = "returned" => Len(passes) = FormatReturned * Len(ExpectedPasses)

\* two calls have returned, the first of which fused a batch-norm
C15_Witness ==
    /\ entry = "format_graph_twice"
    /\ Stmt = "returned"
    /\ Len(passes) = 2 * Len(ExpectedPasses)
    /\ "bn_1" \in graph_arg.operations \ graph.operations

(***************************************************************************)
(* C13 - Exporter handoff guarantee: whatever calls led to it, every graph *)
(* that export_ppq_graph has passed to an exporter's export went through   *)
(* the commit loop and the switcher of dispatch_graph, and carries a       *)
(* switch node on every edge between operations of different platforms.    *)
(***************************************************************************)
Committed(call) ==
    /\ \E i \in 1..Len(call.stages) : call.stages[i] = "commit"
    /\ \E i \in 1..Len(call.stages) : call.stages[i] = "insert_switcher"

BoundaryComplete(g) ==
    \A e \in g.edges : g.platform[e[1]] # g.platform[e[2]] => g.switchers[e] >= 1

C13_ExporterHandoff ==
    \A i \in 1..Len(exports) :
        /\ Committed(exports[i])
        /\ BoundaryComplete(exports[i].graph)

(***************************************************************************)
(* C17 - Export collisions: in a call of export_ppq_graph, when the        *)
(* postfixed graph path or the config path is a directory, or the platform *)
(* is no key of EXPORTERS, the call never gets past the check that raises  *)
(* (FileExistsError, KeyError) and the exporter is not invoked; otherwise  *)
(* each of the two paths that is a regular file has got a warning once the *)
(* path loop is done, and the call that has returned has invoked the       *)
(* exporter exactly once, with the postfixed graph path and the config     *)
(* path.                                                                   *)
(***************************************************************************)
\* number of statements of the entry point that precede export_ppq_graph's own
ExportBase == Len(Body(entry)) - Len(export_ppq_graph)

PostfixedPath == GraphSaveTo \o Postfix(platform)

\* the paths export_ppq_graph looks at, in order
SavePaths ==
    IF config_save_to = <<>> THEN <<PostfixedPath>>
    ELSE <<PostfixedPath, config_save_to[1]>>

IsDirectory(i) == files[SavePaths[i]] = "dir"

Blocked == \E i \in 1..Len(SavePaths) : IsDirectory(i)

C17_ExportCollisions ==
    pc > ExportBase =>
        /\ Blocked =>
              /\ pc = ExportBase + 1
              /\ err \in {"none", "FileExistsError"}
              /\ exports = <<>>
        /\ (~Blocked /\ platform \notin EXPORTERS) =>
              /\ pc <= ExportBase + 2
              /\ pc = ExportBase + 2 => err \in {"none", "KeyError"}
              /\ exports = <<>>
        /\ (~Blocked /\ pc > ExportBase + 1) =>
              warnings = SelectSeq(SavePaths, LAMBDA f : files[f] = "file")
        /\ Stmt = "returned" =>
              /\ Len(exports) = 1
              /\ exports[1].file_path = PostfixedPath
              /\ exports[1].config_path = config_save_to
              /\ exports[1].graph = graph
        /\ Stmt # "returned" => exports = <<>>

\* a returned call that warned about both paths before it invoked the exporter
C17_Witness ==
    /\ entry = "export_ppq_graph"
    /\ Stmt = "returned"
    /\ Len(warnings) = 2
    /\ Len(exports) = 1
    /\ Postfix(platform) # ""
    /\ files[GraphSaveTo] = "dir"

(***************************************************************************)
(* C16 - Settings load: from_file on a JSON object whose platform entry is *)
(* the name of a TargetPlatform member never raises and, once returned,    *)
(* has given a settings object with exactly the recognized fields: the     *)
(* platform is that member, every recognized key of the document holds the *)
(* document's value, every other field its default, and each key that is   *)
(* no field got one warning, in document order.  On an object without      *)
(* platform entry, or with a platform that is no member name, from_file    *)
(* never returns: it raises AssertionError resp. KeyError and yields no     *)
(* settings object.                                                        *)
(***************************************************************************)
Fields == DOMAIN DefaultConstructed(PyPlatform("FP32"))

ObjectOnFile ==
    /\ entry = "from_file"
    /\ files[SettingPath] = "file"
    /\ document[1].type = "dict"

PlatformNamed ==
    /\ HasKey(document[1], "platform")
    /\ IsMemberName(ValueOf(document[1], "platform"))

C16_SettingsLoad ==
    ObjectOnFile =>
        LET items   == document[1].items
            unknown == SelectSeq(items, LAMBDA it : it.key \notin Fields)
        IN  IF PlatformNamed
            THEN /\ err = "none"
                 /\ Stmt = "returned" =>
                       /\ Len(loaded) = 1
                       /\ DOMAIN loaded[1] = Fields
                       /\ loaded[1].platform =
                             PyPlatform(ValueOf(document[1], "platform").str[1])
                       /\ \A i \in 1..Len(items) :
                             items[i].key \in Fields \ {"platform"} =>
                                 loaded[1][items[i].key] = items[i].value
                       /\ \A f \in Fields \ {"platform"} :
                             ~HasKey(document[1], f) =>
                                 loaded[1][f] = DefaultConstructed(PyNone)[f]
                       /\ warnings = [i \in 1..Len(unknown) |-> unknown[i].key]
            ELSE /\ pc = 1
                 /\ loaded = <<>>
                 /\ err # "none" =>
                       err = IF HasKey(document[1], "platform") THEN "KeyError"
                             ELSE "AssertionError"

\* a load that returned, applied a field and warned about two unknown keys
C16_Witness ==
    /\ ObjectOnFile
    /\ Stmt = "returned"
    /\ Len(warnings) = 2
    /\ loaded[1].finetune_steps = PyInt(0)
    /\ loaded[1].calibration = DefaultCalibration

(***************************************************************************)
(* C20 - Settings round trip: for a setting built by the constructor,      *)
(* to_json to a path that is no directory followed by from_file on that    *)
(* path raises nothing; the document holds the platform's name as a string *)
(* and, once from_file has returned, the loaded object equals the original *)
(* in the platform and in every other field, and no key was warned about.  *)
(***************************************************************************)
C20_RoundTrip ==
    (entry = "to_json_from_file" /\ files[SettingPath] # "dir") =>
        /\ err = "none"
        /\ pc > 1 =>
              ValueOf(document[1], "platform") = PyStr(setting[1].platform.str[1])
        /\ Stmt = "returned" =>
              /\ loaded = setting
              /\ \A f \in Fields : loaded[1][f] = setting[1][f]
              /\ loaded[1].platform.type = "TargetPlatform"
              /\ \A i \in 1..Len(warnings) : warnings[i] = SettingPath

\* a setting built from a single name and a name list, written over an
\* existing file and read back
C20_Witness ==
    /\ entry = "to_json_from_file"
    /\ Stmt = "returned"
    /\ warnings = <<SettingPath>>
    /\ setting[1].interested_outputs = PyList(<<"relu_1">>)
    /\ Len(setting[1].non_quantable_op.str) = 3
    /\ loaded[1].non_quantable_op = setting[1].non_quantable_op

====
